---- MODULE Spec2Model ----
(***************************************************************************)
(* Model of the four Rhino scripts of rhino-brep-analysis:                 *)
(*   01_analyze_brep.py            face statistics of one Brep             *)
(*   02_check_surface.py           inspection of one surface               *)
(*   03_create_line_cylinder.py    axis line of one cylinder face          *)
(*   04_batch_process_surfaces.py  axis lines for a whole selection        *)
(* One behaviour is one run of one script on one selection.  Lengths are   *)
(* fixed-point integers in tenths of a millimetre (3.2 mm = 32, 2.5 = 25); *)
(* the angular parameter U is counted in quarter turns.  Objects of the    *)
(* host are described the way the scripts look at them: by ObjectType, by  *)
(* whether coercion yields geometry, and by the attributes the scripts     *)
(* probe with hasattr.                                                     *)
(***************************************************************************)
EXTENDS Integers, Sequences, FiniteSets

\* ------------------------------------------------------------------ bounds
MaxFaces == 2
MaxItems == 2

\* ------------------------------------------------------- program constants
DIAMETER_THRESHOLD == 32
ConeHalfLength == 25
SurfaceType == 8
BrepType == 16

Red == <<255, 0, 0>>
Green == <<0, 255, 0>>
NoColor == <<>>

NurbsNames == {"NurbsSurface", "SumSurface", "RevSurface"}
KindNames == NurbsNames \cup {"PlaneSurface"}

\* --------------------------------------------------------- vector algebra
VAdd(a, b) == <<a[1] + b[1], a[2] + b[2], a[3] + b[3]>>
VSub(a, b) == <<a[1] - b[1], a[2] - b[2], a[3] - b[3]>>
VScale(a, k) == <<a[1] * k, a[2] * k, a[3] * k>>

\* v.X * axis.X + v.Y * axis.Y + v.Z * axis.Z
DotXYOnly(v, axis) == v[1] * axis[1] + v[2] * axis[2]
Dot(v, axis) == v[1] * axis[1] + v[2] * axis[2] + v[3] * axis[3]

\* (Domain.Min + Domain.Max) / 2 ; the domains of the inputs have even sums
Mid(dom) == (dom[1] + dom[2]) \div 2

\* --------------------------------------------------- surfaces of the host
Origin == <<0, 0, 0>>
UnsetCylinder == [Radius |-> 0, Axis |-> Origin, Center |-> Origin]
UnsetCone == [Axis |-> Origin, ApexPoint |-> Origin]

\* Two unit directions perpendicular to a coordinate axis direction.
FrameX(axis) == IF axis[3] # 0 THEN <<1, 0, 0>> ELSE IF axis[1] # 0 THEN <<0, 1, 0>> ELSE <<0, 0, 1>>
FrameY(axis) == IF axis[3] # 0 THEN <<0, 1, 0>> ELSE IF axis[1] # 0 THEN <<0, 0, 1>> ELSE <<1, 0, 0>>
Radial(axis, u) ==
    CASE u % 4 = 0 -> FrameX(axis)
      [] u % 4 = 1 -> FrameY(axis)
      [] u % 4 = 2 -> VScale(FrameX(axis), -1)
      [] OTHER     -> VScale(FrameY(axis), -1)

\* face.PointAt(u, v).  V runs along the axis of a cylinder (VOrg is where
\* V = 0 lies on the axis, measured from cyl.Center; VDir is +1 or -1, the
\* sense of V against cyl.Axis); U runs around it.  A cone of half-angle 45
\* degrees is parametrized from its apex; any other surface is the plane
\* through the origin.
PointAt(face, u, v) ==
    IF face.is_cyl
    THEN VAdd(VAdd(face.cyl.Center, VScale(face.cyl.Axis, face.VOrg + face.VDir * v)),
              VScale(Radial(face.cyl.Axis, u), face.cyl.Radius))
    ELSE IF face.is_cone
    THEN VAdd(VAdd(face.cone.ApexPoint, VScale(face.cone.Axis, v)),
              VScale(Radial(face.cone.Axis, u), v))
    ELSE <<u, v, 0>>

\* A face together with its underlying surface: the outcomes of
\* TryGetCylinder, TryGetCone, IsPlanar and GetType().Name, and its domains.
Surf(c, cy, k, co, p, n, du, dv, vo, vd) ==
    [is_cyl |-> c, cyl |-> cy, is_cone |-> k, cone |-> co, is_planar |-> p,
     Name |-> n, DomU |-> du, DomV |-> dv, VOrg |-> vo, VDir |-> vd]

DefU == <<0, 4>>
DefV == <<0, 20>>
Cyl(r, ax, ctr) == [Radius |-> r, Axis |-> ax, Center |-> ctr]
Cone(ax, apex) == [Axis |-> ax, ApexPoint |-> apex]
DefCyl == Cyl(10, <<0, 0, 1>>, Origin)
DefCone == Cone(<<0, 0, 1>>, <<0, 0, -20>>)

\* every combination of fit outcomes, planarity and kind name
FitFace(c, k, p, n) ==
    Surf(c, IF c THEN DefCyl ELSE UnsetCylinder, k, IF k THEN DefCone ELSE UnsetCone,
         p, n, DefU, DefV, 0, 1)
FitFaces == {FitFace(c, k, p, n) : c \in BOOLEAN, k \in BOOLEAN, p \in BOOLEAN, n \in KindNames}

\* plain cylinders of diameter 2, 3.2, 4 and 6 mm
Radii == {10, 16, 20, 30}
CylOfRadius(r) ==
    Surf(TRUE, Cyl(r, <<0, 0, 1>>, Origin), FALSE, UnsetCone, FALSE, "RevSurface",
         DefU, DefV, 0, 1)
ConeFace == FitFace(FALSE, TRUE, FALSE, "RevSurface")
PlaneFace == FitFace(FALSE, FALSE, TRUE, "PlaneSurface")
NurbsFace == FitFace(FALSE, FALSE, FALSE, "NurbsSurface")
OtherFace == FitFace(FALSE, FALSE, FALSE, "PlaneSurface")
StatFaces == FitFaces \cup {CylOfRadius(r) : r \in Radii}

\* faces trimmed from two cylinders, with several V-domains each
CylA == Cyl(10, <<0, 0, 1>>, Origin)
CylB == Cyl(16, <<-1, 0, 0>>, <<10, -20, 30>>)
TrimA(dv) == Surf(TRUE, CylA, FALSE, UnsetCone, FALSE, "RevSurface", <<0, 4>>, dv, 0, 1)
TrimB(dv) == Surf(TRUE, CylB, FALSE, UnsetCone, FALSE, "NurbsSurface", <<0, 2>>, dv, 40, -1)
VDomains == {<<0, 20>>, <<40, 60>>, <<-20, 60>>, <<20, 20>>}
GeoCyls == {TrimA(dv) : dv \in VDomains} \cup {TrimB(dv) : dv \in VDomains}

\* faces of cones
GeoCone(ax, apex, dv) == Surf(FALSE, UnsetCylinder, TRUE, Cone(ax, apex), FALSE, "RevSurface", <<0, 2>>, dv, 0, 1)
GeoCones == {GeoCone(<<0, 0, 1>>, Origin, <<0, 20>>),
             GeoCone(<<0, 0, 1>>, Origin, <<20, 100>>),
             GeoCone(<<0, -1, 0>>, <<10, 20, -30>>, <<40, 60>>)}

\* ---------------------------------------------------- objects of the host
\* geo: what rs.coercebrep / rs.coercesurface return.  A surface has no
\* Faces and can be evaluated; a Brep has Faces and no PointAt of its own.
NoSurf == OtherFace
SurfaceGeo(f) == [has_Faces |-> FALSE, Faces |-> <<>>, has_PointAt |-> TRUE, self |-> f]
BrepGeo(fs, own) == [has_Faces |-> TRUE, Faces |-> fs, has_PointAt |-> FALSE, self |-> own]

SurfaceObj(f) == [ObjectType |-> SurfaceType, coerces |-> TRUE, geo |-> SurfaceGeo(f)]
BrepObj(fs) == [ObjectType |-> BrepType, coerces |-> TRUE, geo |-> BrepGeo(fs, NoSurf)]
\* a Brep without faces, whose own fit queries answer as `own` does
EmptyBrepObj(own) == [ObjectType |-> BrepType, coerces |-> TRUE, geo |-> BrepGeo(<<>>, own)]
\* objects that rs.coerce... turns into None, and a curve
BadObj(t) == [ObjectType |-> t, coerces |-> FALSE, geo |-> SurfaceGeo(NoSurf)]
CurveObj == BadObj(4)

SeqsUpTo(S, n) == UNION {[1..k -> S] : k \in 0..n}

\* the solid of the worked example: cylinders of diameter 2, 4, 6, a cone, two planes
ExampleSolid ==
    BrepObj(<<CylOfRadius(10), CylOfRadius(20), CylOfRadius(30), ConeFace, PlaneFace, PlaneFace>>)
\* the items of the worked example: cylinder, plane, cone, freeform
ExampleItems ==
    <<SurfaceObj(TrimA(<<0, 20>>)), SurfaceObj(PlaneFace), BrepObj(<<GeoCone(<<0, 0, 1>>, Origin, <<0, 20>>)>>),
      SurfaceObj(NurbsFace)>>

Junk == {CurveObj, BadObj(SurfaceType), BadObj(BrepType)}
Ducks == {EmptyBrepObj(CylOfRadius(10)), EmptyBrepObj(ConeFace), EmptyBrepObj(NurbsFace)}
Fit8 == {FitFace(c, k, p, "NurbsSurface") : c \in BOOLEAN, k \in BOOLEAN, p \in BOOLEAN}
BatchObjs ==
    Junk \cup Ducks
         \cup {SurfaceObj(f) : f \in Fit8}
         \cup {BrepObj(<<f>>) : f \in GeoCyls \cup GeoCones}
         \cup {BrepObj(<<PlaneFace, CylOfRadius(20)>>)}
SingleObjs == BatchObjs \cup {SurfaceObj(f) : f \in StatFaces}

Sel01 ==
    {<<BrepObj(fs)>> : fs \in SeqsUpTo(StatFaces, MaxFaces)}
        \cup {<<>>, <<CurveObj>>, <<BadObj(BrepType)>>, <<SurfaceObj(PlaneFace)>>, <<ExampleSolid>>}
Sel02 == {<<>>} \cup {<<o>> : o \in SingleObjs}
Sel03 == {<<>>} \cup {<<o>> : o \in SingleObjs}
Sel04 == SeqsUpTo(BatchObjs, MaxItems) \cup {ExampleItems}

\* ------------------------------------------------------------------ state
VARIABLES
    sel,        \* rs.SelectedObjects()
    script,     \* the script being run: "01", "02", "03" or "04"
    pc,         \* "start", "loop", "done", or "error" (an uncaught exception)
    total_faces, face_idx, cylinders, cones, planes, nurbs, others,
    cylinders_above_threshold,                      \* 01
    summary,    \* 02: the type printed after SUMMARY
    idx,        \* 04: the number of items the loop has handled
    types,      \* 04: per handled item, the type line printed for it
    lines_created,                                  \* 04
    requests    \* 03, 04: the calls of rs.AddLine, in order

vars01 == <<total_faces, face_idx, cylinders, cones, planes, nurbs, others, cylinders_above_threshold>>
vars04 == <<idx, types, lines_created>>
vars == <<sel, script, pc, vars01, summary, vars04, requests>>

Init ==
    /\ \/ script = "01" /\ sel \in Sel01
       \/ script = "02" /\ sel \in Sel02
       \/ script = "03" /\ sel \in Sel03
       \/ script = "04" /\ sel \in Sel04
    /\ pc = "start"
    /\ total_faces = 0 /\ face_idx = 0
    /\ cylinders = 0 /\ cones = 0 /\ planes = 0 /\ nurbs = 0 /\ others = 0
    /\ cylinders_above_threshold = 0
    /\ summary = ""
    /\ idx = 0 /\ types = <<>> /\ lines_created = 0
    /\ requests = <<>>

\* ------------------------------------------------------ 01_analyze_brep.py
\* the if / elif chain of the face loop
ClassifyPlaneFirst(face) ==
    IF face.is_planar THEN "Plane"
    ELSE IF face.is_cyl THEN "Cylinder"
    ELSE IF face.is_cone THEN "Cone"
    ELSE IF face.Name \in NurbsNames THEN "Freeform"
    ELSE "Other"
ClassifyNoNurbs(face) ==
    IF face.is_cyl THEN "Cylinder"
    ELSE IF face.is_cone THEN "Cone"
    ELSE IF face.is_planar THEN "Plane"
    ELSE IF face.Name \in NurbsNames THEN "Unknown"
    ELSE "Other"
Classify01(face) ==
    IF face.is_cyl THEN "Cylinder"
    ELSE IF face.is_cone THEN "Cone"
    ELSE IF face.is_planar THEN "Plane"
    ELSE IF face.Name \in NurbsNames THEN "Freeform"
    ELSE "Other"

\* diameter = cyl.Radius * 2 ; diameter > DIAMETER_THRESHOLD
AboveOrEqual(cyl) == cyl.Radius * 2 >= DIAMETER_THRESHOLD
AboveThreshold(cyl) == cyl.Radius * 2 > DIAMETER_THRESHOLD

\* lines 28-57: the selection, the type test, the coercion, the counters
Start01 ==
    /\ script = "01" /\ pc = "start"
    /\ IF sel # <<>> /\ sel[1].ObjectType = BrepType /\ sel[1].coerces /\ sel[1].geo.has_Faces
       THEN /\ total_faces' = Len(sel[1].geo.Faces)
            /\ pc' = "loop"
       ELSE /\ total_faces' = total_faces
            /\ pc' = "done"
    /\ face_idx' = 0
    /\ cylinders' = 0 /\ cones' = 0 /\ planes' = 0 /\ nurbs' = 0 /\ others' = 0
    /\ cylinders_above_threshold' = 0
    /\ UNCHANGED <<sel, script, summary, vars04, requests>>

\* lines 59-88: one iteration of the face loop
AnalyzeFace ==
    /\ script = "01" /\ pc = "loop"
    /\ face_idx < total_faces
    /\ LET face == sel[1].geo.Faces[face_idx + 1]
           tag == Classify01(face)
       IN /\ cylinders' = IF tag = "Cylinder" THEN cylinders + 1 ELSE cylinders
          /\ cylinders_above_threshold' =
                IF tag = "Cylinder" /\ AboveThreshold(face.cyl)
                THEN cylinders_above_threshold + 1 ELSE cylinders_above_threshold
          /\ cones' = IF tag = "Cone" THEN cones + 1 ELSE cones
          /\ planes' = IF tag = "Plane" THEN planes + 1 ELSE planes
          /\ nurbs' = IF tag = "Freeform" THEN nurbs + 1 ELSE nurbs
          /\ others' = IF tag = "Other" THEN others + 1 ELSE others
    /\ face_idx' = face_idx + 1
    /\ UNCHANGED <<sel, script, pc, total_faces, summary, vars04, requests>>

\* lines 90-101: the loop is exhausted, the results are printed
Report01 ==
    /\ script = "01" /\ pc = "loop"
    /\ face_idx = total_faces
    /\ pc' = "done"
    /\ UNCHANGED <<sel, script, vars01, summary, vars04, requests>>

\* ------------------------------------------------------ the annotation sink
\* One call of rs.AddLine(s, e) for item i.  ln is the sink's answer (an id,
\* or None); rs.ObjectColor(ln, color) is called only under `if ln:`.
Req(i, seg, ln, color) ==
    [item |-> i, s |-> seg[1], e |-> seg[2], ln |-> ln,
     color |-> IF ln THEN color ELSE NoColor]

\* ----------------------------------------------------- 02_check_surface.py
\* lines 60-66: face and surf.  geo.Faces[0] of a Brep without faces raises.
Pick02(obj) ==
    IF obj.ObjectType = BrepType /\ obj.geo.has_Faces
    THEN IF Len(obj.geo.Faces) = 0
         THEN [raised |-> TRUE, surf |-> NoSurf, has_face |-> FALSE]
         ELSE [raised |-> FALSE, surf |-> obj.geo.Faces[1], has_face |-> TRUE]
    ELSE [raised |-> FALSE, surf |-> obj.geo.self, has_face |-> obj.geo.has_PointAt]

\* lines 145-152: the SUMMARY chain
Summary02(is_cyl, is_cone, is_planar) ==
    IF is_cone THEN "CONE"
    ELSE IF is_cyl THEN "CYLINDER"
    ELSE IF is_planar THEN "PLANE"
    ELSE "COMPLEX"

\* lines 26-152: the whole script
Check02 ==
    /\ script = "02" /\ pc = "start"
    /\ IF sel # <<>> /\ sel[1].ObjectType \in {SurfaceType, BrepType} /\ sel[1].coerces
       THEN LET pk == Pick02(sel[1])
                is_planar == IF pk.has_face THEN pk.surf.is_planar ELSE FALSE
            IN IF pk.raised
               THEN pc' = "error" /\ summary' = summary
               ELSE /\ pc' = "done"
                    /\ summary' = Summary02(pk.surf.is_cyl, pk.surf.is_cone, is_planar)
       ELSE pc' = "done" /\ summary' = summary
    /\ UNCHANGED <<sel, script, vars01, vars04, requests>>

\* ----------------------------------------------- 03_create_line_cylinder.py
\* lines 37-42
Pick03(obj) ==
    IF obj.ObjectType = BrepType /\ obj.geo.has_Faces
    THEN IF Len(obj.geo.Faces) = 0
         THEN [raised |-> TRUE, surf |-> NoSurf, has_face |-> FALSE]
         ELSE [raised |-> FALSE, surf |-> obj.geo.Faces[1], has_face |-> TRUE]
    ELSE [raised |-> FALSE, surf |-> obj.geo.self, has_face |-> obj.geo.has_PointAt]

\* lines 53-75: <<start, end>>
CylSegment03(cyl, face) ==
    LET axis == cyl.Axis
        cyl_center == cyl.Center
        u_mid == Mid(face.DomU)
        v_min == face.DomV[1]
        v_max == face.DomV[2]
        p1 == PointAt(face, u_mid, v_min)
        p2 == PointAt(face, u_mid, v_max)
        v1 == VSub(p1, cyl_center)
        v2 == VSub(p2, cyl_center)
        t1 == Dot(v1, axis)
        t2 == Dot(v2, axis)
    IN <<VAdd(cyl_center, VScale(axis, t1)), VAdd(cyl_center, VScale(axis, t2))>>

\* lines 27-92: the whole script; ln is the answer of rs.AddLine
CreateLine03 ==
    /\ script = "03" /\ pc = "start"
    /\ IF sel # <<>> /\ sel[1].coerces
       THEN LET pk == Pick03(sel[1])
            IN IF pk.raised
               THEN pc' = "error" /\ requests' = requests
               ELSE /\ pc' = "done"
                    /\ IF pk.surf.is_cyl /\ pk.has_face
                       THEN \E ln \in BOOLEAN :
                              requests' = Append(requests,
                                  Req(1, CylSegment03(pk.surf.cyl, pk.surf), ln, Green))
                       ELSE requests' = requests
       ELSE pc' = "done" /\ requests' = requests
    /\ UNCHANGED <<sel, script, vars01, summary, vars04>>

\* ------------------------------------------- 04_batch_process_surfaces.py
\* line 48: if t == 8 or t == 16
IsSurfaceKind(t) == t = SurfaceType \/ t = BrepType

\* line 51: if geo
NoGeoGuard(obj) == TRUE
GeoGuard(obj) == obj.coerces

\* lines 53-58
Pick04(obj) ==
    IF obj.ObjectType = BrepType /\ obj.geo.has_Faces /\ Len(obj.geo.Faces) > 0
    THEN [surf |-> obj.geo.Faces[1], has_face |-> TRUE]
    ELSE [surf |-> obj.geo.self, has_face |-> obj.geo.has_PointAt]

\* lines 73-83: <<s, e>> of a cone
ConeSegmentApex(cone, face, has_face) ==
    <<VSub(cone.ApexPoint, VScale(cone.Axis, ConeHalfLength)),
      VAdd(cone.ApexPoint, VScale(cone.Axis, ConeHalfLength))>>
ConeSegment04(cone, face, has_face) ==
    LET c == IF has_face
             THEN PointAt(face, Mid(face.DomU), Mid(face.DomV))
             ELSE cone.ApexPoint
        ax == cone.Axis
    IN <<VSub(c, VScale(ax, ConeHalfLength)), VAdd(c, VScale(ax, ConeHalfLength))>>

\* lines 96-118: <<s, e>> of a cylinder
CylSegmentUDomain(cyl, face) ==
    LET u_mid == Mid(face.DomU)
        t1 == Dot(VSub(PointAt(face, u_mid, face.DomU[1]), cyl.Center), cyl.Axis)
        t2 == Dot(VSub(PointAt(face, u_mid, face.DomU[2]), cyl.Center), cyl.Axis)
    IN <<VAdd(cyl.Center, VScale(cyl.Axis, t1)), VAdd(cyl.Center, VScale(cyl.Axis, t2))>>
CylSegmentXY(cyl, face) ==
    LET u_mid == Mid(face.DomU)
        t1 == DotXYOnly(VSub(PointAt(face, u_mid, face.DomV[1]), cyl.Center), cyl.Axis)
        t2 == DotXYOnly(VSub(PointAt(face, u_mid, face.DomV[2]), cyl.Center), cyl.Axis)
    IN <<VAdd(cyl.Center, VScale(cyl.Axis, t1)), VAdd(cyl.Center, VScale(cyl.Axis, t2))>>
CylSegment04(cyl, face) ==
    LET u_mid == Mid(face.DomU)
        axis == cyl.Axis
        cyl_center == cyl.Center
        v_min == face.DomV[1]
        v_max == face.DomV[2]
        p1 == PointAt(face, u_mid, v_min)
        p2 == PointAt(face, u_mid, v_max)
        v1 == VSub(p1, cyl_center)
        v2 == VSub(p2, cyl_center)
        t1 == Dot(v1, axis)
        t2 == Dot(v2, axis)
    IN <<VAdd(cyl_center, VScale(axis, t1)), VAdd(cyl_center, VScale(axis, t2))>>

\* lines 86-88 and 121-123: if ln: ... lines_created += 1
CountAlways(n, ln) == n + 1
CountLine(n, ln) == IF ln THEN n + 1 ELSE n

\* the list of rs.AddLine calls grows at its end
EmitFirst(reqs, r) == <<r>> \o reqs
Emit(reqs, r) == Append(reqs, r)

\* lines 68-127: the type dispatch of one item: the type line it prints and
\* the rs.AddLine call it makes, if any (i is the item's number, from 1)
Dispatch04(i, surf, has_face, ln) ==
    IF surf.is_cone
    THEN [type |-> "CONE", calls |-> <<Req(i, ConeSegment04(surf.cone, surf, has_face), ln, Red)>>]
    ELSE IF surf.is_cyl
    THEN [type |-> "CYLINDER",
          calls |-> IF has_face
                    THEN <<Req(i, CylSegment04(surf.cyl, surf), ln, Green)>>
                    ELSE <<>>]
    ELSE [type |-> "Other", calls |-> <<>>]

\* lines 32-39
Start04 ==
    /\ script = "04" /\ pc = "start"
    /\ pc' = IF sel # <<>> THEN "loop" ELSE "done"
    /\ idx' = 0 /\ types' = <<>> /\ lines_created' = 0
    /\ UNCHANGED <<sel, script, vars01, summary, requests>>

\* lines 41-127: one iteration of the loop over the selection.  An object
\* that passes the guards without geometry raises at surf.GetType().
BatchItem ==
    /\ script = "04" /\ pc = "loop"
    /\ idx < Len(sel)
    /\ LET obj == sel[idx + 1]
       IN IF IsSurfaceKind(obj.ObjectType) /\ GeoGuard(obj)
          THEN IF ~obj.coerces
               THEN pc' = "error" /\ UNCHANGED <<idx, types, lines_created, requests>>
               ELSE \E ln \in BOOLEAN :
                      LET pk == Pick04(obj)
                          d == Dispatch04(idx + 1, pk.surf, pk.has_face, ln)
                      IN /\ types' = Append(types, d.type)
                         /\ IF d.calls # <<>>
                            THEN /\ requests' = Emit(requests, d.calls[1])
                                 /\ lines_created' = CountLine(lines_created, ln)
                            ELSE UNCHANGED <<requests, lines_created>>
                         /\ idx' = idx + 1
                         /\ pc' = pc
          ELSE /\ types' = Append(types, "")
               /\ idx' = idx + 1
               /\ UNCHANGED <<pc, lines_created, requests>>
    /\ UNCHANGED <<sel, script, vars01, summary>>

\* lines 129-131: the loop is exhausted, the count is printed
Report04 ==
    /\ script = "04" /\ pc = "loop"
    /\ idx = Len(sel)
    /\ pc' = "done"
    /\ UNCHANGED <<sel, script, vars01, summary, vars04, requests>>

Next ==
    \/ Start01 \/ AnalyzeFace \/ Report01
    \/ Check02
    \/ CreateLine03
    \/ Start04 \/ BatchItem \/ Report04

Spec == Init /\ [][Next]_vars

\* ================================================================= claims
Total == cylinders + cones + planes + nurbs + others
\* the faces of the solid script 01 iterates over, once its loop has begun
Faces01 == sel[1].geo.Faces
Seen == 1..face_idx
IsBrepRun == sel # <<>> /\ sel[1].ObjectType = 16 /\ sel[1].coerces /\ sel[1].geo.has_Faces

\* C1: in script 01 each counter holds the number of processed faces the
\* precedence selects for it: cylinder fit first, whatever the other outcomes;
\* else cone fit; else IsPlanar; else a kind name among NurbsSurface,
\* SumSurface, RevSurface; else Other.
C1_Precedence ==
    (script = "01" /\ face_idx > 0) =>
        /\ cylinders = Cardinality({i \in Seen : Faces01[i].is_cyl})
        /\ cones = Cardinality({i \in Seen : ~Faces01[i].is_cyl /\ Faces01[i].is_cone})
        /\ planes = Cardinality({i \in Seen :
               ~Faces01[i].is_cyl /\ ~Faces01[i].is_cone /\ Faces01[i].is_planar})
        /\ nurbs = Cardinality({i \in Seen :
               /\ ~Faces01[i].is_cyl /\ ~Faces01[i].is_cone /\ ~Faces01[i].is_planar
               /\ Faces01[i].Name \in {"NurbsSurface", "SumSurface", "RevSurface"}})
        /\ others = Cardinality({i \in Seen :
               /\ ~Faces01[i].is_cyl /\ ~Faces01[i].is_cone /\ ~Faces01[i].is_planar
               /\ Faces01[i].Name \notin {"NurbsSurface", "SumSurface", "RevSurface"}})
\* a face passing the cylinder fit, the cone fit and the planarity predicate
\* has been counted, as a cylinder only
C1_Witness ==
    /\ script = "01" /\ pc = "done" /\ face_idx = 1
    /\ Faces01[1].is_cyl /\ Faces01[1].is_cone /\ Faces01[1].is_planar
    /\ cylinders = 1 /\ cones = 0 /\ planes = 0

\* C2: the summary of script 02 and the type script 04 acts on are the tag
\* the chain of script 01 gives the same surface.
TagOf02(tag) ==
    CASE tag = "Cylinder" -> "CYLINDER"
      [] tag = "Cone" -> "CONE"
      [] tag = "Plane" -> "PLANE"
      [] OTHER -> "COMPLEX"
TagOf04(tag) ==
    CASE tag = "Cylinder" -> "CYLINDER"
      [] tag = "Cone" -> "CONE"
      [] OTHER -> "Other"
C2_Consistent ==
    /\ (script = "02" /\ pc = "done" /\ summary # "") =>
           summary = TagOf02(Classify01(Pick02(sel[1]).surf))
    /\ script = "04" =>
           \A i \in 1..idx :
               types[i] # "" => types[i] = TagOf04(Classify01(Pick04(sel[i]).surf))

\* C3: in script 01 the five counters add up to the number of faces
\* processed; at the end that is the face count of the solid; a solid
\* without faces leaves every counter at zero.
C3_ExactlyOne ==
    script = "01" =>
        /\ Total = face_idx
        /\ (pc = "done" /\ IsBrepRun) =>
               /\ face_idx = Len(Faces01)
               /\ Total = Len(Faces01)
               /\ Len(Faces01) = 0 =>
                      /\ cylinders = 0 /\ cones = 0 /\ planes = 0 /\ nurbs = 0 /\ others = 0
                      /\ cylinders_above_threshold = 0
C3_Witness ==
    /\ script = "01" /\ pc = "done" /\ IsBrepRun
    /\ Len(Faces01) = 2 /\ cones = 1 /\ nurbs = 1 /\ Total = 2

\* C4: the sub-count is the number of processed cylinder faces whose diameter
\* 2 * radius exceeds 3.2 strictly; it never exceeds the cylinder count; the
\* worked example gives 3, 2, 1, 2, 0, 0 and a total of 6.
C4_Threshold ==
    script = "01" =>
        /\ cylinders_above_threshold <= cylinders
        /\ face_idx > 0 =>
               cylinders_above_threshold =
                   Cardinality({i \in Seen : Faces01[i].is_cyl /\ 2 * Faces01[i].cyl.Radius > 32})
        /\ (pc = "done" /\ sel = <<ExampleSolid>>) =>
               /\ cylinders = 3 /\ cylinders_above_threshold = 2 /\ cones = 1
               /\ planes = 2 /\ nurbs = 0 /\ others = 0 /\ Total = 6
\* a cylinder of diameter exactly 3.2 next to one of diameter 4
C4_Witness ==
    /\ script = "01" /\ pc = "done" /\ IsBrepRun /\ Len(Faces01) = 2
    /\ Faces01[1].is_cyl /\ Faces01[1].cyl.Radius = 16
    /\ Faces01[2].is_cyl /\ Faces01[2].cyl.Radius = 20
    /\ cylinders = 2 /\ cylinders_above_threshold = 1

\* what script 04 takes item i to be
Item(i) == Pick04(sel[i])
IsGeometry(i) == sel[i].ObjectType \in {8, 16} /\ sel[i].coerces
IsConeItem(i) == IsGeometry(i) /\ Item(i).surf.is_cone
IsCylItem(i) == IsGeometry(i) /\ ~Item(i).surf.is_cone /\ Item(i).surf.is_cyl
RequestsOf(i) == {k \in 1..Len(requests) : requests[k].item = i}

C6_CountsEmitted ==
    script = "04" => lines_created = Len(requests)
\* C6, amended: the reported count is the number of emitted requests that the
\* sink materialized; it never exceeds the number of requests emitted.
C6_CountsMaterialized ==
    script = "04" =>
        /\ lines_created = Cardinality({k \in 1..Len(requests) : requests[k].ln})
        /\ lines_created <= Len(requests)
C6_Witness ==
    /\ script = "04" /\ pc = "done"
    /\ Len(requests) = 2 /\ requests[1].ln /\ ~requests[2].ln
    /\ lines_created = 1

\* C7: script 04 never ends in an exception; while it loops, the guard of
\* its next iteration or of its final report holds; every item has been
\* handled when the count is printed; and a handled cone or cylinder face
\* has its request whatever happened to the items before it.
C7_NoAbort ==
    script = "04" =>
        /\ pc # "error"
        /\ Len(types) = idx
        /\ pc = "loop" => (idx < Len(sel) \/ idx = Len(sel))
        /\ (pc = "done" /\ sel # <<>>) => idx = Len(sel)
        /\ \A i \in 1..idx :
               (IsConeItem(i) \/ (IsCylItem(i) /\ Item(i).has_face)) => RequestsOf(i) # {}
\* after a request the sink did not materialize, the next item still got
\* its request and the run ended
C7_Witness ==
    /\ script = "04" /\ pc = "done" /\ Len(sel) = 2
    /\ Len(requests) = 2
    /\ ~requests[1].ln /\ requests[1].item = 1
    /\ requests[2].item = 2
\* the same after an item that cannot be coerced
C7_WitnessNoGeometry ==
    /\ script = "04" /\ pc = "done" /\ Len(sel) = 2
    /\ ~sel[1].coerces
    /\ Len(requests) = 1 /\ requests[1].item = 2

\* the projection of p onto the axis through c with direction a
Proj(p, c, a) == (p[1] - c[1]) * a[1] + (p[2] - c[2]) * a[2] + (p[3] - c[3]) * a[3]
OnAxis(c, a, t) == <<c[1] + a[1] * t, c[2] + a[2] * t, c[3] + a[3] * t>>
\* the face a cylinder request of the running script belongs to
CylFaceOf(k) ==
    IF script = "03" THEN Pick03(sel[1]).surf ELSE Item(requests[k].item).surf
CylRequests ==
    {k \in 1..Len(requests) : script = "03" \/ IsCylItem(requests[k].item)}

\* C8: a cylinder request starts at C + A * t1 and ends at C + A * t2, t1 and
\* t2 being the projections of the face points at (mid U, V-min) and
\* (mid U, V-max); its end points project back to t1 and t2; scripts 03 and
\* 04 compute the same segment for the face.
C8_Projection ==
    \A k \in CylRequests :
        LET f == CylFaceOf(k)
            C == f.cyl.Center
            A == f.cyl.Axis
            t1 == Proj(PointAt(f, Mid(f.DomU), f.DomV[1]), C, A)
            t2 == Proj(PointAt(f, Mid(f.DomU), f.DomV[2]), C, A)
        IN /\ requests[k].s = OnAxis(C, A, t1)
           /\ requests[k].e = OnAxis(C, A, t2)
           /\ Proj(requests[k].s, C, A) = t1
           /\ Proj(requests[k].e, C, A) = t2
           /\ <<requests[k].s, requests[k].e>> = CylSegment03(f.cyl, f)
           /\ <<requests[k].s, requests[k].e>> = CylSegment04(f.cyl, f)
\* a face whose V runs against the axis: the segment runs from 40 to 20
C8_Witness ==
    /\ script = "04" /\ Len(requests) = 1
    /\ sel[1] = BrepObj(<<TrimB(<<0, 20>>)>>)
    /\ requests[1].s = <<-30, -20, 30>> /\ requests[1].e = <<-10, -20, 30>>

Min2(x, y) == IF x < y THEN x ELSE y
Max2(x, y) == IF x < y THEN y ELSE x
\* two segments have no point in common: some coordinate separates them
SegDisjoint(r, q) ==
    \E c \in 1..3 :
        \/ Max2(r.s[c], r.e[c]) < Min2(q.s[c], q.e[c])
        \/ Max2(q.s[c], q.e[c]) < Min2(r.s[c], r.e[c])
SameCylinder(f, g) == f.cyl = g.cyl /\ f.VOrg = g.VOrg /\ f.VDir = g.VDir
DomDisjoint(d, e) == d[2] < e[1] \/ e[2] < d[1]

\* C9: the segments of two faces of one cylinder with disjoint V-domains
\* are disjoint.
C9_Disjoint ==
    script = "04" =>
        \A k, m \in CylRequests :
            LET f == CylFaceOf(k)
                g == CylFaceOf(m)
            IN (SameCylinder(f, g) /\ DomDisjoint(f.DomV, g.DomV)) =>
                   SegDisjoint(requests[k], requests[m])
C9_Witness ==
    /\ script = "04" /\ Len(requests) = 2
    /\ sel = <<BrepObj(<<TrimA(<<0, 20>>)>>), BrepObj(<<TrimA(<<40, 60>>)>>)>>
    /\ SegDisjoint(requests[1], requests[2])

\* C10: the one request of a cone item runs from c - A * 2.5 to c + A * 2.5,
\* c being the face point at the middle of the U and V domains, or the apex
\* when the item has no face: c is its midpoint and its extent along the
\* axis is 5 whatever the V-domain is.
C10_ConeSegment ==
    script = "04" =>
        \A i \in 1..idx :
            IsConeItem(i) =>
                /\ Cardinality(RequestsOf(i)) = 1
                /\ \A k \in RequestsOf(i) :
                       LET f == Item(i).surf
                           A == f.cone.Axis
                           c == IF Item(i).has_face
                                THEN PointAt(f, (f.DomU[1] + f.DomU[2]) \div 2,
                                                (f.DomV[1] + f.DomV[2]) \div 2)
                                ELSE f.cone.ApexPoint
                       IN /\ requests[k].s = OnAxis(c, A, -25)
                          /\ requests[k].e = OnAxis(c, A, 25)
                          /\ VAdd(requests[k].s, requests[k].e) = VScale(c, 2)
                          /\ VSub(requests[k].e, requests[k].s) = VScale(A, 50)
\* the apex fallback, then a cone face with V-domain 2 .. 10
C10_Witness ==
    /\ script = "04" /\ idx = 2 /\ Len(requests) = 2
    /\ sel[1] = EmptyBrepObj(ConeFace)
    /\ sel[2] = BrepObj(<<GeoCone(<<0, 0, 1>>, Origin, <<20, 100>>)>>)
    /\ requests[1].s = <<0, 0, -45>> /\ requests[1].e = <<0, 0, 5>>
    /\ requests[2].s = <<0, 60, 35>> /\ requests[2].e = <<0, 60, 85>>

====
